---- MODULE Spec2Model ----
(***************************************************************************)
(* Model of src/main.py: a FastAPI service with five CRUD handlers for     *)
(* each of two SQLite tables, products and services.                       *)
(*                                                                         *)
(* The storage file itech.db is the shared state.  Every request opens its *)
(* own connection (get_db).  A write handler runs cursor.execute, which    *)
(* opens the connection's implicit transaction and takes the database      *)
(* write lock, and then conn.commit, which publishes the change and frees  *)
(* the lock; a connection that finds the lock taken waits in SQLite's busy *)
(* handler, which the model shows as the execute step not being enabled.   *)
(* A read handler sees committed rows only.                                *)
(*                                                                         *)
(* Prices are REAL columns fed from pydantic floats; a float is stored and *)
(* read back bit for bit, so a price is modelled by a number.              *)
(*                                                                         *)
(* Outside the model: requests that fail validation (they never reach a    *)
(* handler), ids that do not fit SQLite's 64-bit INTEGER, and errors of    *)
(* the storage engine itself (disk, busy timeout, rowid exhaustion), which *)
(* are the only way into the except branch of the create handlers.         *)
(***************************************************************************)
EXTENDS Integers, Sequences, FiniteSets, TLC

\* Largest value the AUTOINCREMENT counter of a table reaches in the model.
MaxSeq == 2
\* The same cap for the runs with two request contexts.
MaxConcSeq == 1

Entities == {"products", "services"}

\* Validated request bodies (class Product, class Service).  The two bodies
\* of an entity differ in every field, so a row that mixes fields of the two,
\* or keeps a field of the row it replaces, equals neither.
ProductPayloads ==
    { [name |-> "Widget", type |-> "Hardware", buying_price |-> 1, selling_price |-> 3],
      [name |-> "Gadget", type |-> "Software", buying_price |-> 2, selling_price |-> 5] }

ServicePayloads ==
    { [name |-> "Repair", description |-> "Fix", price |-> 10],
      [name |-> "Install", description |-> "Setup", price |-> 20] }

Payloads(e) == IF e = "products" THEN ProductPayloads ELSE ServicePayloads

NoPayload == [none |-> TRUE]
NoThread == "none"
NoResp == [status |-> 0, body |-> [none |-> TRUE]]

VARIABLES
    schema,     \* TRUE once itech.db holds the two tables
    rows,       \* rows[e]: the committed table of entity e, a function id -> row
    seq,        \* seq[e]: sqlite_sequence.seq of the table of e
    serving,    \* TRUE while the server process runs
    lock,       \* the request context holding the database write lock
    txn,        \* the uncommitted database image of the lock holder
    req,        \* req[t]: the request handled in context t
    out,        \* the request answered by the last step, with its response
    assigned    \* history: assigned[e] = every id an INSERT ever assigned

vars == <<schema, rows, seq, serving, lock, txn, req, out, assigned>>

Threads == DOMAIN req

EmptyTable == [i \in {} |-> NoPayload]

Max2(a, b) == IF a >= b THEN a ELSE b

SetMax(S) == CHOOSE m \in S : \A x \in S : x <= m
SetMin(S) == CHOOSE m \in S : \A x \in S : m <= x

\* Largest rowid in a table, 0 for the empty table.
MaxRowid(table) == IF DOMAIN table = {} THEN 0 ELSE SetMax(DOMAIN table)

\* Without the AUTOINCREMENT keyword SQLite picks max(rowid)+1.
NewRowidNoAutoincrement(table, s) == MaxRowid(table) + 1

\* INTEGER PRIMARY KEY AUTOINCREMENT: one more than the largest rowid the
\* table ever held, which sqlite_sequence remembers.
NewRowid(table, s) == Max2(s, MaxRowid(table)) + 1

\* An INSERT that binds the two prices in the wrong order.
RowSwappedPrices(e, i, p) ==
    IF e = "products"
    THEN [id |-> i, name |-> p.name, type |-> p.type,
          buying_price |-> p.selling_price, selling_price |-> p.buying_price]
    ELSE [id |-> i, name |-> p.description, description |-> p.name, price |-> p.price]

\* The row an INSERT stores: the bound payload fields under the new id.
Row(e, i, p) ==
    IF e = "products"
    THEN [id |-> i, name |-> p.name, type |-> p.type,
          buying_price |-> p.buying_price, selling_price |-> p.selling_price]
    ELSE [id |-> i, name |-> p.name, description |-> p.description, price |-> p.price]

\* INSERT INTO <e> (...) VALUES (...): the table and counter afterwards.
InsertRow(e, table, s, p) ==
    LET i == NewRowid(table, s)
    IN  [table |-> [j \in DOMAIN table \cup {i} |->
                        IF j = i THEN Row(e, i, p) ELSE table[j]],
         seq |-> i, lastrowid |-> i, rowcount |-> 1]

\* An UPDATE that leaves the last column out of its SET list.
UpdatedRowMerge(e, old, p) ==
    IF e = "products"
    THEN [id |-> old.id, name |-> p.name, type |-> p.type,
          buying_price |-> p.buying_price, selling_price |-> old.selling_price]
    ELSE [id |-> old.id, name |-> p.name, description |-> p.description,
          price |-> old.price]

\* UPDATE <e> SET <every column but id> = ? : the row afterwards.
UpdatedRow(e, old, p) ==
    IF e = "products"
    THEN [id |-> old.id, name |-> p.name, type |-> p.type,
          buying_price |-> p.buying_price, selling_price |-> p.selling_price]
    ELSE [id |-> old.id, name |-> p.name, description |-> p.description,
          price |-> p.price]

\* An UPDATE that counts the matching row but whose write is lost.
UpdateRowLost(e, table, i, p) ==
    [table |-> table, rowcount |-> IF i \in DOMAIN table THEN 1 ELSE 0]

\* UPDATE ... WHERE id = ?
UpdateRow(e, table, i, p) ==
    IF i \in DOMAIN table
    THEN [table |-> [table EXCEPT ![i] = UpdatedRow(e, table[i], p)], rowcount |-> 1]
    ELSE [table |-> table, rowcount |-> 0]

\* A DELETE without its WHERE clause.
DeleteRowAll(table, i) ==
    [table |-> EmptyTable, rowcount |-> Cardinality(DOMAIN table)]

\* A DELETE that counts the matching row but leaves it stored.
DeleteRowKept(table, i) ==
    [table |-> table, rowcount |-> IF i \in DOMAIN table THEN 1 ELSE 0]

\* DELETE FROM <e> WHERE id = ?
DeleteRow(table, i) ==
    IF i \in DOMAIN table
    THEN [table |-> [j \in DOMAIN table \ {i} |-> table[j]], rowcount |-> 1]
    ELSE [table |-> table, rowcount |-> 0]

\* A scan that returns the rows from the largest rowid down.
RECURSIVE ScanDescending(_, _)
ScanDescending(table, ids) ==
    IF ids = {} THEN << >>
    ELSE LET m == SetMax(ids)
         IN  <<table[m]>> \o ScanDescending(table, ids \ {m})

\* SELECT * FROM <e>, no ORDER BY: SQLite walks the table's rowid b-tree,
\* smallest rowid first.
RECURSIVE Scan(_, _)
Scan(table, ids) ==
    IF ids = {} THEN << >>
    ELSE LET m == SetMin(ids)
         IN  <<table[m]>> \o Scan(table, ids \ {m})

SelectAll(table) == Scan(table, DOMAIN table)

\* HTTPException(status_code=404, detail="<Entity> not found")
NotFound(e) ==
    [status |-> 404,
     body |-> [detail |-> IF e = "products" THEN "Product not found"
                                            ELSE "Service not found"]]

\* A create handler that also reports cursor.lastrowid.
CreateResponseWithId(e, r) ==
    [status |-> 200,
     body |-> [message |-> IF e = "products" THEN "Product added successfully"
                                             ELSE "Service added successfully",
               id |-> r.lastrowid]]

\* What create_product / create_service return after the commit; r is the
\* outcome of the INSERT, of which the handler uses nothing.
CreateResponse(e, r) ==
    [status |-> 200,
     body |-> [message |-> IF e = "products" THEN "Product added successfully"
                                             ELSE "Service added successfully"]]

\* read_products / read_services: every row of the table as a dict.
ListResponse(e, table) ==
    [status |-> 200,
     body |-> IF e = "products" THEN [products |-> SelectAll(table)]
                                ELSE [services |-> SelectAll(table)]]

\* A read handler without the None check: it answers 200 with an empty body.
ReadResponseUnguarded(e, table, i) ==
    IF i \in DOMAIN table
    THEN [status |-> 200, body |-> table[i]]
    ELSE [status |-> 200, body |-> [none |-> TRUE]]

\* read_product / read_service: fetchone(), 404 when it is None.
ReadResponse(e, table, i) ==
    IF i \in DOMAIN table
    THEN [status |-> 200, body |-> table[i]]
    ELSE NotFound(e)

\* update_product / update_service after the commit.
UpdateResponse(e, rowcount) ==
    IF rowcount = 0
    THEN NotFound(e)
    ELSE [status |-> 200,
          body |-> [message |-> IF e = "products" THEN "Product updated successfully"
                                                  ELSE "Service updated successfully"]]

\* delete_product / delete_service after the commit.
DeleteResponse(e, rowcount) ==
    IF rowcount = 0
    THEN NotFound(e)
    ELSE [status |-> 200,
          body |-> [message |-> IF e = "products" THEN "Product deleted successfully"
                                                  ELSE "Service deleted successfully"]]

\* An initialization that drops and recreates the tables.
init_db_recreate(has, tabs, ctr) ==
    [schema |-> TRUE,
     rows |-> [e \in Entities |-> EmptyTable],
     seq |-> [e \in Entities |-> 0]]

\* init_db: CREATE TABLE IF NOT EXISTS for both tables, then commit.
init_db(has, tabs, ctr) ==
    IF has
    THEN [schema |-> TRUE, rows |-> tabs, seq |-> ctr]
    ELSE [schema |-> TRUE,
          rows |-> [e \in Entities |-> EmptyTable],
          seq |-> [e \in Entities |-> 0]]

----------------------------------------------------------------------------
\* The state machine.

NoBehind == [op |-> "none", ent |-> "none", id |-> 0, rowcount |-> 0]

Idle == [pc |-> "idle", op |-> "none", ent |-> "none", id |-> 0,
         payload |-> NoPayload, rowcount |-> 0, raced |-> FALSE,
         behind |-> NoBehind]

NoOut == [op |-> "none", ent |-> "none", id |-> 0, payload |-> NoPayload,
          rowcount |-> 0, raced |-> FALSE, resp |-> NoResp]

NoTxn == [none |-> TRUE]

\* The cap on the AUTOINCREMENT counters in the runs of a specification.
Cap == IF Cardinality(Threads) > 1 THEN MaxConcSeq ELSE MaxSeq

InitWith(T) ==
    /\ schema = FALSE
    /\ rows = [e \in Entities |-> EmptyTable]
    /\ seq = [e \in Entities |-> 0]
    /\ serving = FALSE
    /\ lock = NoThread
    /\ txn = NoTxn
    /\ req = [t \in T |-> Idle]
    /\ out = NoOut
    /\ assigned = [e \in Entities |-> {}]

Init == InitWith({"r1"})
InitConc == InitWith({"r1", "r2"})

\* startup(): get_db() and init_db(conn), before any request is served.
startup ==
    /\ ~serving
    /\ LET db == init_db(schema, rows, seq)
       IN  /\ schema' = db.schema
           /\ rows' = db.rows
           /\ seq' = db.seq
    /\ serving' = TRUE
    /\ out' = [NoOut EXCEPT !.op = "startup"]
    /\ UNCHANGED <<lock, txn, req, assigned>>

\* The server process ends (uvicorn.run returns): requests in flight are
\* dropped and an uncommitted transaction is rolled back.  The file stays.
Shutdown ==
    /\ serving
    /\ serving' = FALSE
    /\ lock' = NoThread
    /\ txn' = NoTxn
    /\ req' = [t \in Threads |-> Idle]
    /\ out' = NoOut
    /\ UNCHANGED <<schema, rows, seq, assigned>>

\* Context t runs the handler of request (op, e, i, p): either the request
\* arrives now (its body validated, its connection opened by get_db), or it
\* is the request t has been waiting with.
Handles(t, op, e, i, p) ==
    /\ serving
    /\ \/ req[t].pc = "idle"
       \/ /\ req[t].pc = "busy"
          /\ req[t].op = op
          /\ req[t].ent = e
          /\ req[t].id = i
          /\ req[t].payload = p

\* The transaction a waiting connection waits behind.
Summary(op, e, i, rowcount) ==
    [op |-> op, ent |-> e, id |-> i, rowcount |-> rowcount]

\* cursor.execute of a write statement finds the write lock taken by another
\* connection: SQLite's busy handler makes the call wait.
Busy(t) ==
    /\ serving
    /\ req[t].pc = "idle"
    /\ lock \notin {NoThread, t}
    /\ \E e \in Entities :
         \E op \in {"create", "update", "delete"} :
           \E i \in (IF op = "create" THEN {0} ELSE 1..Cap) :
             \E p \in (IF op = "delete" THEN {NoPayload} ELSE Payloads(e)) :
               /\ op = "create" => seq[e] < Cap
               /\ req' = [req EXCEPT ![t] =
                            [pc |-> "busy", op |-> op, ent |-> e, id |-> i,
                             payload |-> p, rowcount |-> 0, raced |-> FALSE,
                             behind |-> Summary(req[lock].op, req[lock].ent,
                                                req[lock].id, req[lock].rowcount)]]
    /\ out' = NoOut
    /\ UNCHANGED <<schema, rows, seq, serving, lock, txn, assigned>>

\* An update raced: it waited behind an update that matched the same row.
Raced(t, op, e, i) ==
    /\ req[t].pc = "busy"
    /\ op = "update"
    /\ req[t].behind = Summary("update", e, i, 1)

\* cursor.execute of a write statement: it runs inside the connection's
\* implicit transaction, holding the database write lock until the commit.
Execute(t, op, e, i, p, table, s, rowcount) ==
    /\ lock = NoThread
    /\ lock' = t
    /\ txn' = [rows |-> [rows EXCEPT ![e] = table],
               seq |-> [seq EXCEPT ![e] = s]]
    /\ req' = [u \in Threads |->
                 IF u = t
                 THEN [pc |-> "executed", op |-> op, ent |-> e, id |-> i,
                       payload |-> p, rowcount |-> rowcount,
                       raced |-> Raced(t, op, e, i), behind |-> NoBehind]
                 ELSE IF req[u].pc = "busy"
                 THEN [req[u] EXCEPT !.behind = Summary(op, e, i, rowcount)]
                 ELSE req[u]]
    /\ out' = NoOut
    /\ UNCHANGED <<schema, rows, seq, serving, assigned>>

Executed(t, op) == req[t].pc = "executed" /\ req[t].op = op /\ lock = t

\* The answer of a handler goes out and its context is free again.
Answer(t, op, e, i, p, rowcount, raced, resp) ==
    /\ out' = [op |-> op, ent |-> e, id |-> i, payload |-> p,
               rowcount |-> rowcount, raced |-> raced, resp |-> resp]
    /\ req' = [req EXCEPT ![t] = Idle]

\* conn.commit(), then the handler's answer.
Commit(t, resp) ==
    /\ rows' = txn.rows
    /\ seq' = txn.seq
    /\ assigned' = [e \in Entities |->
                      assigned[e] \cup (DOMAIN txn.rows[e] \ DOMAIN rows[e])]
    /\ lock' = NoThread
    /\ txn' = NoTxn
    /\ Answer(t, req[t].op, req[t].ent, req[t].id, req[t].payload,
              req[t].rowcount, req[t].raced, resp)
    /\ UNCHANGED <<schema, serving>>

\* create_product / create_service, up to the INSERT.
create_execute(t) ==
    \E e \in Entities : \E p \in Payloads(e) :
        /\ Handles(t, "create", e, 0, p)
        /\ seq[e] < Cap
        /\ LET r == InsertRow(e, rows[e], seq[e], p)
           IN  Execute(t, "create", e, 0, p, r.table, r.seq, r.rowcount)

\* create_product / create_service, commit and return.
create_commit(t) ==
    /\ Executed(t, "create")
    /\ Commit(t, CreateResponse(req[t].ent, [lastrowid |-> txn.seq[req[t].ent]]))

\* read_products / read_services.
read_all(t) ==
    \E e \in Entities :
        /\ serving
        /\ req[t].pc = "idle"
        /\ Answer(t, "list", e, 0, NoPayload, 0, FALSE, ListResponse(e, rows[e]))
        /\ UNCHANGED <<schema, rows, seq, serving, lock, txn, assigned>>

\* read_product / read_service.
read_one(t) ==
    \E e \in Entities : \E i \in 1..Cap :
        /\ serving
        /\ req[t].pc = "idle"
        /\ Answer(t, "read", e, i, NoPayload, 0, FALSE, ReadResponse(e, rows[e], i))
        /\ UNCHANGED <<schema, rows, seq, serving, lock, txn, assigned>>

\* update_product / update_service, up to the UPDATE.
update_execute(t) ==
    \E e \in Entities : \E i \in 1..Cap : \E p \in Payloads(e) :
        /\ Handles(t, "update", e, i, p)
        /\ LET r == UpdateRow(e, rows[e], i, p)
           IN  Execute(t, "update", e, i, p, r.table, seq[e], r.rowcount)

\* update_product / update_service, commit, then the rowcount check.
update_commit(t) ==
    /\ Executed(t, "update")
    /\ Commit(t, UpdateResponse(req[t].ent, req[t].rowcount))

\* delete_product / delete_service, up to the DELETE.
delete_execute(t) ==
    \E e \in Entities : \E i \in 1..Cap :
        /\ Handles(t, "delete", e, i, NoPayload)
        /\ LET r == DeleteRow(rows[e], i)
           IN  Execute(t, "delete", e, i, NoPayload, r.table, seq[e], r.rowcount)

\* delete_product / delete_service, commit, then the rowcount check.
delete_commit(t) ==
    /\ Executed(t, "delete")
    /\ Commit(t, DeleteResponse(req[t].ent, req[t].rowcount))

\* The steps of a server that handles one request at a time.
NextSeq ==
    \/ startup
    \/ Shutdown
    \/ \E t \in Threads : create_execute(t)
    \/ \E t \in Threads : create_commit(t)
    \/ \E t \in Threads : read_all(t)
    \/ \E t \in Threads : read_one(t)
    \/ \E t \in Threads : update_execute(t)
    \/ \E t \in Threads : update_commit(t)
    \/ \E t \in Threads : delete_execute(t)
    \/ \E t \in Threads : delete_commit(t)

\* With several request contexts a write may also have to wait.
Next ==
    \/ NextSeq
    \/ \E t \in Threads : Busy(t)

\* One request at a time.
Spec == Init /\ [][NextSeq]_vars

\* Two request contexts running handlers concurrently.
SpecConc == InitConc /\ [][Next]_vars

----------------------------------------------------------------------------
\* What the claims compare the program with, written out field by field.

ExpectedRecord(e, i, p) ==
    IF e = "products"
    THEN [id |-> i, name |-> p.name, type |-> p.type,
          buying_price |-> p.buying_price, selling_price |-> p.selling_price]
    ELSE [id |-> i, name |-> p.name, description |-> p.description,
          price |-> p.price]

ExpectedNotFound(e) ==
    [status |-> 404,
     body |-> IF e = "products" THEN [detail |-> "Product not found"]
                                ELSE [detail |-> "Service not found"]]

ExpectedMessage(e, verb) ==
    [status |-> 200,
     body |-> [message |-> IF e = "products"
                           THEN IF verb = "added" THEN "Product added successfully"
                                ELSE IF verb = "updated" THEN "Product updated successfully"
                                ELSE "Product deleted successfully"
                           ELSE IF verb = "added" THEN "Service added successfully"
                                ELSE IF verb = "updated" THEN "Service updated successfully"
                                ELSE "Service deleted successfully"]]

\* The rows a list response carries.
Listed(o) == IF o.ent = "products" THEN o.resp.body.products
                                   ELSE o.resp.body.services

\* The ids the step adds to the table of e.
NewIds(e) == DOMAIN rows'[e] \ DOMAIN rows[e]

\* The step is the commit of a handler of kind op run by t.
Commits(t, op) == Executed(t, op) /\ out'.op = op

\* C1: create(P) followed by a read of the id assigned to the new record
\* returns P's fields under that id, for products and for services.
C1_CreateThenRead ==
    [][\A t \in Threads :
         Commits(t, "create") =>
           LET e == req[t].ent
           IN  /\ Cardinality(NewIds(e)) = 1
               /\ \A i \in NewIds(e) :
                    ReadResponse(e, rows'[e], i)
                      = [status |-> 200,
                         body |-> ExpectedRecord(e, i, req[t].payload)]]_vars

C1_Witness ==
    /\ out.op = "create"
    /\ out.ent = "products"
    /\ seq["products"] = 2
    /\ DOMAIN rows["products"] = {1, 2}
    /\ rows["products"][2].selling_price = out.payload.selling_price
    /\ rows["products"][1].selling_price # out.payload.selling_price

C3_IdsUnique ==
    \A e \in Entities :
        /\ \A i \in DOMAIN rows[e] : rows[e][i].id = i
        /\ LET L == SelectAll(rows[e])
           IN  \A j, k \in 1..Len(L) : j # k => L[j].id # L[k].id

C3_IdsNeverReused ==
    /\ []C3_IdsUnique
    /\ [][\A e \in Entities : NewIds(e) \cap assigned[e] = {}]_vars

C3_Witness ==
    /\ out.op = "create"
    /\ out.ent = "products"
    /\ assigned["products"] = {1, 2}
    /\ DOMAIN rows["products"] = {2}

\* C4: list returns every stored record of the entity exactly once, in
\* ascending id order; after N creates and no delete that is N entries.
C4_ListComplete ==
    out.op = "list" =>
        LET e == out.ent
            L == Listed(out)
        IN  /\ out.resp.status = 200
            /\ Len(L) = Cardinality(DOMAIN rows[e])
            /\ \A j \in 1..Len(L) :
                 /\ L[j].id \in DOMAIN rows[e]
                 /\ L[j] = rows[e][L[j].id]
            /\ \A j, k \in 1..Len(L) : j < k => L[j].id < L[k].id
            /\ DOMAIN rows[e] = assigned[e] => Len(L) = seq[e]

C4_Witness ==
    /\ out.op = "list"
    /\ out.ent = "products"
    /\ Len(Listed(out)) = 2
    /\ Listed(out)[1].name # Listed(out)[2].name

\* C5: update(id, P2) of a stored id succeeds, and a read of the id then
\* returns P2 in every field but id, under the same id.
C5_UpdateThenRead ==
    [][\A t \in Threads :
         (Commits(t, "update") /\ req[t].id \in DOMAIN rows[req[t].ent]) =>
           LET e == req[t].ent
               i == req[t].id
           IN  /\ out'.resp = ExpectedMessage(e, "updated")
               /\ ReadResponse(e, rows'[e], i)
                    = [status |-> 200,
                       body |-> ExpectedRecord(e, i, req[t].payload)]]_vars

C5_Witness ==
    /\ out.op = "update"
    /\ out.resp.status = 200
    /\ out.ent = "products"
    /\ out.id = 1
    /\ 2 \in DOMAIN rows["products"]
    /\ rows["products"][2].name # rows["products"][1].name

\* C6: delete(id) of a stored id succeeds and a read of the id then answers
\* not found; the id never comes back, whatever is created later, so a second
\* delete(id) answers not found too.
C6_DeleteThenNotFound ==
    [][/\ \A t \in Threads :
            (Commits(t, "delete") /\ req[t].id \in DOMAIN rows[req[t].ent]) =>
              LET e == req[t].ent
                  i == req[t].id
              IN  /\ out'.resp = ExpectedMessage(e, "deleted")
                  /\ ReadResponse(e, rows'[e], i) = ExpectedNotFound(e)
                  /\ DeleteResponse(e, DeleteRow(rows'[e], i).rowcount)
                       = ExpectedNotFound(e)
       /\ \A e \in Entities :
            \A i \in assigned[e] \ DOMAIN rows[e] :
              /\ i \notin DOMAIN rows'[e]
              /\ (out'.op \in {"read", "delete"} /\ out'.ent = e /\ out'.id = i)
                   => out'.resp = ExpectedNotFound(e)]_vars

C6_Witness ==
    /\ out.op = "delete"
    /\ out.resp.status = 404
    /\ out.id = 1
    /\ 1 \in assigned[out.ent]
    /\ 2 \in DOMAIN rows[out.ent]

C8_CounterRemembers ==
    \A e \in Entities : \A i \in assigned[e] : i <= seq[e]

C8_InitIdempotent ==
    /\ []C8_CounterRemembers
    /\ [][(~serving /\ serving' /\ schema)
            => (schema' /\ rows' = rows /\ seq' = seq)]_vars

C8_Witness ==
    /\ out.op = "startup"
    /\ DOMAIN rows["products"] = {2}
    /\ assigned["products"] = {1, 2}
    /\ DOMAIN rows["services"] = {1}

\* C9: an update that waited behind another update of the same stored row
\* succeeds like the first, and the row afterwards holds the payload of the
\* update applied last in every field: no field of the other payload or of
\* the earlier row is left.
C9_LastWriteWins ==
    /\ \A t, u \in Threads :
         (/\ Executed(t, "update")
          /\ req[t].rowcount = 1
          /\ req[u].pc = "busy"
          /\ req[u].op = "update"
          /\ req[u].ent = req[t].ent
          /\ req[u].id = req[t].id) =>
            /\ req[t].id \in DOMAIN rows[req[t].ent]
            /\ txn.rows[req[t].ent][req[t].id]
                 = ExpectedRecord(req[t].ent, req[t].id, req[t].payload)
    /\ (out.op = "update" /\ out.rowcount = 1) =>
            out.resp = ExpectedMessage(out.ent, "updated")
    /\ (out.op = "update" /\ out.raced) =>
            /\ out.resp = ExpectedMessage(out.ent, "updated")
            /\ out.id \in DOMAIN rows[out.ent]
            /\ rows[out.ent][out.id] = ExpectedRecord(out.ent, out.id, out.payload)

C9_Witness ==
    /\ out.op = "update"
    /\ out.raced
    /\ out.ent = "products"
    /\ out.resp.status = 200
    /\ rows["products"][1].name = "Gadget"

\* C10: a create adds one record and changes no other; an update or delete of
\* a stored id changes or removes that record alone; every other step leaves
\* both tables as they are; and no step on one entity changes the other's table.
Others(e, S) == \A i \in S : i \in DOMAIN rows'[e] /\ rows'[e][i] = rows[e][i]

C10_Frame ==
    [][/\ \A t \in Threads :
            LET e == req[t].ent
                i == req[t].id
            IN  /\ Commits(t, "create") =>
                     /\ Cardinality(DOMAIN rows'[e]) = Cardinality(DOMAIN rows[e]) + 1
                     /\ Others(e, DOMAIN rows[e])
                /\ (Commits(t, "update") /\ i \in DOMAIN rows[e]) =>
                     /\ DOMAIN rows'[e] = DOMAIN rows[e]
                     /\ Others(e, DOMAIN rows[e] \ {i})
                /\ (Commits(t, "delete") /\ i \in DOMAIN rows[e]) =>
                     /\ DOMAIN rows'[e] = DOMAIN rows[e] \ {i}
                     /\ Others(e, DOMAIN rows[e] \ {i})
                /\ (\E op \in {"create", "update", "delete"} : Commits(t, op)) =>
                     \A o \in Entities \ {e} : rows'[o] = rows[o]
       /\ (\/ out'.op \notin {"create", "update", "delete"}
           \/ out'.resp.status = 404) => rows' = rows]_vars

C10_Witness ==
    /\ out.op = "delete"
    /\ out.resp.status = 200
    /\ out.id = 1
    /\ DOMAIN rows[out.ent] = {2}
    /\ \A e \in Entities \ {out.ent} : DOMAIN rows[e] = {1, 2}

====
